---- MODULE Spec2Model ----
(***************************************************************************)
(* freetype/libutil.py: find_ftlibrary(freetypepydir), the discovery of a  *)
(* FreeType shared library.  The module defines one of three variants of   *)
(* find_ftlibrary, selected by os.name / sys.platform at import time.      *)
(*                                                                         *)
(* Strings are sequences of symbols.  A symbol is one character, except    *)
(* that a directory literal of ctypes.macholib.dyld and the value of       *)
(* find_library are kept as one opaque symbol each.                        *)
(*                                                                         *)
(* The semantics are those of Python 3: the variable p of the list         *)
(* comprehension at line 60 is local to it and leaves the pattern p alone. *)
(***************************************************************************)
EXTENDS Integers, Sequences, FiniteSets, TLC

VARIABLES
    plat,           \* "nt" | "darwin" | "posix": which def of find_ftlibrary exists
    freetypepydir,  \* the argument of find_ftlibrary
    environ,        \* os.environ: name -> [set, val]
    fs,             \* the filesystem: directory path -> [kind, entries]
    resolver,       \* what ctypes.util.find_library('freetype') answers
    searchdirs,     \* the local searchdirs of the last call (nt, darwin)
    outcome,        \* how the last call ended
    calls           \* number of calls made so far

vars == <<plat, freetypepydir, environ, fs, resolver, searchdirs, outcome, calls>>

\* ------------------------------------------------------------------ bounds
MaxEnvLen == 3      \* symbols in the environment (summed over the variables)
MaxFiles == 2       \* directory entries in the whole filesystem
MaxCalls == 2       \* calls of find_ftlibrary in one behaviour

\* ----------------------------------------------------------------- strings
UpperCase == <<"A","B","C","D","E","F","G","H","I","J","K","L","M",
               "N","O","P","Q","R","S","T","U","V","W","X","Y","Z">>

LowerCase == <<"a","b","c","d","e","f","g","h","i","j","k","l","m",
               "n","o","p","q","r","s","t","u","v","w","x","y","z">>

\* re.I on an ASCII pattern: a character and its other case are the same
Lower(c) ==
    IF \E i \in 1..Len(UpperCase) : UpperCase[i] = c
    THEN LowerCase[CHOOSE i \in 1..Len(UpperCase) : UpperCase[i] = c]
    ELSE c

\* s[i+1 .. i+Len(lit)] is lit, ignoring case
LitAt(s, i, lit) ==
    /\ i + Len(lit) <= Len(s)
    /\ \A j \in 1..Len(lit) : Lower(s[i + j]) = Lower(lit[j])

\* '.' of a pattern compiled without re.S: any character but a newline
NoNewline(s, from, to) == \A j \in from..to : s[j] # "\n"

LIB == <<"l","i","b">>

FREETYPE == <<"f","r","e","e","t","y","p","e">>

DOT_DLL == <<".","d","l","l">>

DOT_DYLIB == <<".","d","y","l","i","b">>

DOT_SO == <<".","s","o">>

\* re.compile(r'(lib)?freetype.*<ext>', re.I).match(f): anchored at the
\* start of f only; what follows <ext> is not looked at.
re_match(f, ext) ==
    \E start \in {0, Len(LIB)} :
        /\ start = Len(LIB) => LitAt(f, 0, LIB)
        /\ LitAt(f, start, FREETYPE)
        /\ \E k \in (start + Len(FREETYPE))..Len(f) :
              /\ NoNewline(f, start + Len(FREETYPE) + 1, k)
              /\ LitAt(f, k, ext)

\* the pattern p of each variant; the trailing '.*' of the posix pattern
\* matches the empty string, so it adds nothing to a match at the start
Ext(pl) ==
    CASE pl = "nt" -> DOT_DLL
      [] pl = "darwin" -> DOT_DYLIB
      [] OTHER -> DOT_SO

p_match(pl, f) == re_match(f, Ext(pl))

\* os.pathsep and os.sep
pathsep(pl) == IF pl = "nt" THEN ";" ELSE ":"

sep(pl) == IF pl = "nt" THEN "\\" ELSE "/"

\* str.split(os.pathsep): every separator ends a segment, the rest of the
\* string is the last one, so '' splits into ['']
RECURSIVE SplitFrom(_, _, _, _)
SplitFrom(s, i, cur, ps) ==
    IF i > Len(s) THEN <<cur>>
    ELSE IF s[i] = ps THEN <<cur>> \o SplitFrom(s, i + 1, <<>>, ps)
    ELSE SplitFrom(s, i + 1, Append(cur, s[i]), ps)

split(s, ps) == SplitFrom(s, 1, <<>>, ps)

\* the comprehension without its filter
KeepAll(segs) == segs

\* [p for p in segs if p]
RECURSIVE NonEmpty(_)
NonEmpty(segs) ==
    IF segs = <<>> THEN <<>>
    ELSE IF Head(segs) # <<>> THEN <<Head(segs)>> \o NonEmpty(Tail(segs))
    ELSE NonEmpty(Tail(segs))

\* os.path.join(d, f), f a file name
join(pl, d, f) ==
    IF d = <<>> THEN f
    ELSE IF d[Len(d)] = sep(pl) \/ d[Len(d)] = "/" THEN d \o f
    ELSE d \o <<sep(pl)>> \o f

\* -------------------------------------------------------------- filesystem
\* A path that is no key of fs does not exist.  kind: "missing", "notdir" (a
\* file of that name), "dir", "unlistable" (a directory os.listdir may not
\* read).  entries: the names in the order os.listdir yields them, each with
\* what the name is: "file", "dir", "symlink_to_file", "symlink_to_dir".
isdir(d) == d \in DOMAIN fs /\ fs[d].kind \in {"dir", "unlistable"}

listdir(d) == [i \in 1..Len(fs[d].entries) |-> fs[d].entries[i].name]

\* os.path.exists(fp) in the place of os.path.isfile(fp): any kind of entry
exists(pl, fp) ==
    \E d \in DOMAIN fs :
        /\ fs[d].kind = "dir"
        /\ \E i \in 1..Len(fs[d].entries) : join(pl, d, fs[d].entries[i].name) = fp

\* os.path.isfile(fp): os.stat follows symbolic links
isfile(pl, fp) ==
    \E d \in DOMAIN fs :
        /\ fs[d].kind = "dir"
        /\ \E i \in 1..Len(fs[d].entries) :
              /\ join(pl, d, fs[d].entries[i].name) = fp
              /\ fs[d].entries[i].type \in {"file", "symlink_to_file"}

\* how a call ends.  kind: "init" (no call yet), "path" (return fp), "None"
\* (return None), "raise".  k, d, f: the loop variables at the return.
NoCall == [kind |-> "init", path |-> <<>>, exc |-> "", k |-> 0, d |-> <<>>,
           f |-> <<>>, resolved |-> FALSE]

Return(fp, k, d, f) == [kind |-> "path", path |-> fp, exc |-> "", k |-> k,
                        d |-> d, f |-> f, resolved |-> FALSE]

ReturnNone == [kind |-> "None", path |-> <<>>, exc |-> "", k |-> 0, d |-> <<>>,
               f |-> <<>>, resolved |-> FALSE]

Raise(e, k) == [kind |-> "raise", path |-> <<>>, exc |-> e, k |-> k, d |-> <<>>,
                f |-> <<>>, resolved |-> FALSE]

\* for f in os.listdir(d): fp = join(d, f); if isfile(fp) and p.match(f): return fp
\* The index of the first entry that returns, 0 when the loop runs out.
RECURSIVE ScanEntries(_, _, _, _)
ScanEntries(pl, d, names, j) ==
    IF j > Len(names) THEN 0
    ELSE IF isfile(pl, join(pl, d, names[j])) /\ p_match(pl, names[j]) THEN j
    ELSE ScanEntries(pl, d, names, j + 1)

\* a scan that keeps the last directory with a match instead of the first
RECURSIVE ScanDirsLast(_, _, _)
ScanDirsLast(pl, dirs, i) ==
    IF i > Len(dirs) THEN ReturnNone
    ELSE LET d == dirs[i]
             later == ScanDirsLast(pl, dirs, i + 1)
         IN  IF later.kind # "None" THEN later
             ELSE IF ~isdir(d) THEN ReturnNone
             ELSE IF fs[d].kind = "unlistable" THEN Raise("PermissionError", i)
             ELSE LET j == ScanEntries(pl, d, listdir(d), 1)
                  IN  IF j = 0 THEN ReturnNone
                      ELSE Return(join(pl, d, listdir(d)[j]), i, d, listdir(d)[j])

\* for d in searchdirs: if os.path.isdir(d): <the loop over os.listdir(d)>
\* and the implicit return None at the end of the function
RECURSIVE ScanDirs(_, _, _)
ScanDirs(pl, dirs, i) ==
    IF i > Len(dirs) THEN ReturnNone
    ELSE LET d == dirs[i]
         IN  IF ~isdir(d) THEN ScanDirs(pl, dirs, i + 1)
             ELSE IF fs[d].kind = "unlistable" THEN Raise("PermissionError", i)
             ELSE LET j == ScanEntries(pl, d, listdir(d), 1)
                  IN  IF j = 0 THEN ScanDirs(pl, dirs, i + 1)
                      ELSE Return(join(pl, d, listdir(d)[j]), i, d, listdir(d)[j])

\* ------------------------------------------------------------- environment
Unset == [set |-> FALSE, val |-> <<>>]

Str(s) == [set |-> TRUE, val |-> s]

DyldNames == <<"DYLD_FRAMEWORK_PATH", "DYLD_LIBRARY_PATH",
               "DYLD_FALLBACK_FRAMEWORK_PATH", "DYLD_FALLBACK_LIBRARY_PATH">>

EnvNames == {"PATH"} \cup {DyldNames[i] : i \in 1..Len(DyldNames)}

\* ctypes.macholib.dyld, with os.path.expanduser applied to the first of each
DEFAULT_FRAMEWORK_FALLBACK ==
    << <<"~/Library/Frameworks">>, <<"/Library/Frameworks">>,
       <<"/Network/Library/Frameworks">>, <<"/System/Library/Frameworks">> >>

DEFAULT_LIBRARY_FALLBACK ==
    << <<"~/lib">>, <<"/usr/local/lib">>, <<"/lib">>, <<"/usr/lib">> >>

\* for evn in (...): ev = os.environ.get(evn); if ev: searchdirs += [...]
RECURSIVE EnvDirs(_, _)
EnvDirs(names, i) ==
    IF i > Len(names) THEN <<>>
    ELSE LET ev == environ[names[i]]
         IN  (IF ev.set /\ ev.val # <<>>
              THEN NonEmpty(split(ev.val, pathsep("darwin")))
              ELSE <<>>) \o EnvDirs(names, i + 1)

\* ----------------------------------------------------------------- actions
\* a find_ftlibrary that puts its directory in front of os.environ['PATH']
find_ftlibrary_nt_prepending ==
    /\ plat = "nt"
    /\ calls < MaxCalls
    /\ calls' = calls + 1
    /\ IF ~environ["PATH"].set
       THEN /\ searchdirs' = <<>>
            /\ outcome' = Raise("KeyError", 0)
            /\ environ' = environ
       ELSE /\ environ' = [environ EXCEPT !["PATH"] =
                              Str(freetypepydir \o <<pathsep("nt")>> \o @.val)]
            /\ searchdirs' = split(environ'["PATH"].val, pathsep("nt"))
            /\ outcome' = ScanDirs("nt", searchdirs', 1)
    /\ UNCHANGED <<plat, freetypepydir, fs, resolver>>

\* find_ftlibrary of os.name == "nt"
find_ftlibrary_nt ==
    /\ plat = "nt"
    /\ calls < MaxCalls
    /\ calls' = calls + 1
    /\ IF ~environ["PATH"].set
       THEN /\ searchdirs' = <<>>
            /\ outcome' = Raise("KeyError", 0)
       ELSE /\ searchdirs' = <<freetypepydir>> \o split(environ["PATH"].val, pathsep("nt"))
            /\ outcome' = ScanDirs("nt", searchdirs', 1)
    /\ UNCHANGED <<plat, freetypepydir, environ, fs, resolver>>

\* find_ftlibrary of os.name == "posix" and sys.platform == "darwin"
find_ftlibrary_darwin ==
    /\ plat = "darwin"
    /\ calls < MaxCalls
    /\ calls' = calls + 1
    /\ searchdirs' = <<freetypepydir>> \o EnvDirs(DyldNames, 1)
                       \o DEFAULT_FRAMEWORK_FALLBACK \o DEFAULT_LIBRARY_FALLBACK
    /\ outcome' = ScanDirs("darwin", searchdirs', 1)
    /\ UNCHANGED <<plat, freetypepydir, environ, fs, resolver>>

\* ctypes.util.find_library('freetype'), returned as it is
find_library == [kind |-> IF resolver.found THEN "path" ELSE "None",
                 path |-> resolver.path, exc |-> "", k |-> 0, d |-> <<>>,
                 f |-> <<>>, resolved |-> TRUE]

\* os.listdir(d) of a d that was not tested with os.path.isdir
listdir_error(d) ==
    IF d \notin DOMAIN fs \/ fs[d].kind = "missing" THEN "FileNotFoundError"
    ELSE IF fs[d].kind = "notdir" THEN "NotADirectoryError"
    ELSE IF fs[d].kind = "unlistable" THEN "PermissionError"
    ELSE ""

\* find_ftlibrary of every other platform
find_ftlibrary_posix ==
    /\ plat = "posix"
    /\ calls < MaxCalls
    /\ calls' = calls + 1
    /\ searchdirs' = <<>>
    /\ outcome' =
          IF listdir_error(freetypepydir) # ""
          THEN Raise(listdir_error(freetypepydir), 1)
          ELSE LET names == listdir(freetypepydir)
                   j == ScanEntries("posix", freetypepydir, names, 1)
               IN  IF j # 0
                   THEN Return(join("posix", freetypepydir, names[j]), 1,
                               freetypepydir, names[j])
                   ELSE find_library
    /\ UNCHANGED <<plat, freetypepydir, environ, fs, resolver>>

Next == find_ftlibrary_nt \/ find_ftlibrary_darwin \/ find_ftlibrary_posix

\* ----------------------------------------------------------- initial states
Plats == {"nt", "darwin", "posix"}

HintDir == <<"h">>

DirA == <<"a">>

\* the directories that may exist; every other path is missing
FsDirs == {HintDir, DirA}

\* file names a directory may hold, per variant
\* FreeType.DLL, notfreetype.dll, freetype.dll.bak
Names_nt ==
    { <<"F","r","e","e","T","y","p","e",".","D","L","L">>,
      <<"n","o","t","f","r","e","e","t","y","p","e",".","d","l","l">>,
      <<"f","r","e","e","t","y","p","e",".","d","l","l",".","b","a","k">> }

\* libfreetype.6.dylib, notfreetype.dylib, freetype.dylib.txt
Names_darwin ==
    { <<"l","i","b","f","r","e","e","t","y","p","e",".","6",".","d","y","l","i","b">>,
      <<"n","o","t","f","r","e","e","t","y","p","e",".","d","y","l","i","b">>,
      <<"f","r","e","e","t","y","p","e",".","d","y","l","i","b",".","t","x","t">> }

\* libfreetype.so.6, notfreetype.so, freetype.txt
Names_posix ==
    { <<"l","i","b","f","r","e","e","t","y","p","e",".","s","o",".","6">>,
      <<"n","o","t","f","r","e","e","t","y","p","e",".","s","o">>,
      <<"f","r","e","e","t","y","p","e",".","t","x","t">> }

Names(pl) ==
    CASE pl = "nt" -> Names_nt
      [] pl = "darwin" -> Names_darwin
      [] OTHER -> Names_posix

EntryTypes == {"file", "dir", "symlink_to_file", "symlink_to_dir"}

\* the listings of n entries: no name twice in one directory
Listings(pl, n) ==
    { l \in [1..n -> [name : Names(pl), type : EntryTypes]] :
        \A i, j \in 1..n : i # j => l[i].name # l[j].name }

\* a directory with entries is a listable directory; one without is anything
DirStates(pl, n) ==
    IF n = 0
    THEN { [kind |-> kd, entries |-> <<>>] :
             kd \in {"missing", "notdir", "dir", "unlistable"} }
    ELSE { [kind |-> "dir", entries |-> l] : l \in Listings(pl, n) }

\* every filesystem with at most MaxFiles entries
Filesystems(pl) ==
    UNION { { [d \in FsDirs |-> IF d = HintDir THEN sh ELSE sa] :
                sh \in DirStates(pl, n[1]), sa \in DirStates(pl, n[2]) } :
            n \in { m \in (0..MaxFiles) \X (0..MaxFiles) : m[1] + m[2] <= MaxFiles } }

\* a library of the variant: FreeType.DLL, libfreetype.6.dylib, libfreetype.so.6
LibName(pl) ==
    CASE pl = "nt" -> <<"F","r","e","e","T","y","p","e",".","D","L","L">>
      [] pl = "darwin" -> <<"l","i","b","f","r","e","e","t","y","p","e",".","6",".","d","y","l","i","b">>
      [] OTHER -> <<"l","i","b","f","r","e","e","t","y","p","e",".","s","o",".","6">>

\* the filesystems where a directory is missing or holds the library alone
FewFilesystems(pl) ==
    LET one == { [kind |-> "missing", entries |-> <<>>],
                 [kind |-> "dir",
                  entries |-> << [name |-> LibName(pl), type |-> "file"] >>] }
    IN  { [d \in FsDirs |-> IF d = HintDir THEN sh ELSE sa] : sh \in one, sa \in one }

NoEnv == [e \in EnvNames |-> Unset]

\* the values of one variable: the strings of n symbols naming the
\* directories a and b; a variable of no symbols is empty or unset
EnvValues(pl, n) ==
    { Str(v) : v \in [1..n -> {"a", "b", pathsep(pl)}] }
        \cup (IF n = 0 THEN {Unset} ELSE {})

\* every environment of at most MaxEnvLen symbols
ManyEnvs(pl) ==
    CASE pl = "nt" ->
           UNION { { [NoEnv EXCEPT !["PATH"] = v] : v \in EnvValues(pl, n) } :
                   n \in 0..MaxEnvLen }
      [] pl = "darwin" ->
           UNION { { [e \in EnvNames |->
                        IF e = DyldNames[1] THEN v1
                        ELSE IF e = DyldNames[2] THEN v2
                        ELSE IF e = DyldNames[3] THEN v3
                        ELSE IF e = DyldNames[4] THEN v4
                        ELSE Unset] :
                      v1 \in EnvValues(pl, n[1]), v2 \in EnvValues(pl, n[2]),
                      v3 \in EnvValues(pl, n[3]), v4 \in EnvValues(pl, n[4]) } :
                   n \in { m \in [1..4 -> 0..MaxEnvLen] :
                             m[1] + m[2] + m[3] + m[4] <= MaxEnvLen } }
      [] OTHER -> {NoEnv}

\* two environments that name the directory a, alone and after b
FewEnvs(pl) ==
    CASE pl = "nt" ->
           { [NoEnv EXCEPT !["PATH"] = Str(<<"a">>)],
             [NoEnv EXCEPT !["PATH"] = Str(<<"b", ";", "a">>)] }
      [] pl = "darwin" ->
           { [NoEnv EXCEPT !["DYLD_LIBRARY_PATH"] = Str(<<"a">>)],
             [NoEnv EXCEPT !["DYLD_FALLBACK_LIBRARY_PATH"] = Str(<<"b", ":", "a">>)] }
      [] OTHER -> {NoEnv}

\* find_library('freetype') finds nothing, or a library of the system
Resolvers(pl) ==
    IF pl = "posix"
    THEN { [found |-> FALSE, path |-> <<>>],
           [found |-> TRUE, path |-> <<"libfreetype.so.6">>] }
    ELSE { [found |-> FALSE, path |-> <<>>] }

Init ==
    \E pl \in Plats :
        /\ plat = pl
        /\ freetypepydir = HintDir
        /\ \/ environ \in FewEnvs(pl) /\ fs \in Filesystems(pl)
           \/ environ \in ManyEnvs(pl) /\ fs \in FewFilesystems(pl)
        /\ resolver \in Resolvers(pl)
        /\ searchdirs = <<>>
        /\ outcome = NoCall
        /\ calls = 0

Spec == Init /\ [][Next]_vars

\* ------------------------------------------------------------------ claims
Called == calls >= 1

\* the entries of directory d, none when d is no listable directory
EntriesOf(d) == IF d \in DOMAIN fs /\ fs[d].kind = "dir" THEN fs[d].entries ELSE <<>>

\* d is an existing directory that holds a regular file with a matching name
HasRegularMatch(pl, d) ==
    \E i \in 1..Len(EntriesOf(d)) :
        /\ EntriesOf(d)[i].type = "file"
        /\ p_match(pl, EntriesOf(d)[i].name)

\* the types of the entries that the path fp names
TypesAt(pl, fp) ==
    UNION { { EntriesOf(d)[i].type :
                i \in { x \in 1..Len(EntriesOf(d)) :
                          join(pl, d, EntriesOf(d)[x].name) = fp } } :
            d \in DOMAIN fs }

Scanned == outcome.kind = "path" /\ ~outcome.resolved

\* C1: on every variant a hint directory that does not exist or is no
\* directory is skipped without an error (no exception comes from the first
\* candidate) and the search goes on to the next candidate, which on generic
\* POSIX is find_library('freetype').
C1_MissingHintSkipped ==
    (Called /\ ~isdir(freetypepydir)) =>
        /\ ~(outcome.kind = "raise" /\ outcome.k = 1)
        /\ plat = "posix" => outcome = find_library
        /\ plat # "posix" => outcome.k # 1

\* C2: on every variant, when the hint directory exists and holds a regular
\* file with a matching name, the call returns the path of a matching file of
\* the hint directory, whatever the environment and the other directories.
C2_HintLibraryReturned ==
    (Called /\ HasRegularMatch(plat, freetypepydir)) =>
        /\ outcome.kind = "path"
        /\ \E i \in 1..Len(EntriesOf(freetypepydir)) :
              /\ outcome.path = join(plat, freetypepydir, EntriesOf(freetypepydir)[i].name)
              /\ p_match(plat, EntriesOf(freetypepydir)[i].name)
              /\ EntriesOf(freetypepydir)[i].type \in {"file", "symlink_to_file"}

\* C3: on Windows and macOS the first candidate directory with a match wins:
\* when the call returns a path found in candidate number k, no candidate
\* before k is an existing directory holding a regular file that matches.
C3_FirstDirectoryWins ==
    (Called /\ plat \in {"nt", "darwin"} /\ outcome.kind = "path") =>
        /\ outcome.k \in 1..Len(searchdirs)
        /\ \E i \in 1..Len(EntriesOf(searchdirs[outcome.k])) :
              outcome.path = join(plat, searchdirs[outcome.k],
                                  EntriesOf(searchdirs[outcome.k])[i].name)
        /\ \A j \in 1..(outcome.k - 1) : ~HasRegularMatch(plat, searchdirs[j])

\* a path was returned from a later candidate, after an earlier candidate
\* that exists and holds entries was searched without a match
C3_Witness ==
    /\ plat \in {"nt", "darwin"}
    /\ outcome.kind = "path"
    /\ outcome.k >= 2
    /\ \E j \in 1..(outcome.k - 1) : EntriesOf(searchdirs[j]) # <<>>

\* the variables of the variant are all unset or empty
EnvAllEmpty(names) == \A e \in names : ~environ[e].set \/ environ[e].val = <<>>

\* C4: unset or empty environment variables add no candidate and cause no
\* error: the call gives the result of searching the remaining candidates,
\* the hint directory and on macOS the default fallback directories.
C4_EmptyEnvTolerated ==
    Called =>
        /\ (plat = "nt" /\ EnvAllEmpty({"PATH"})) =>
              outcome = ScanDirs("nt", <<freetypepydir>>, 1)
        /\ (plat = "darwin" /\ EnvAllEmpty({DyldNames[i] : i \in 1..Len(DyldNames)})) =>
              outcome = ScanDirs("darwin", <<freetypepydir>> \o DEFAULT_FRAMEWORK_FALLBACK
                                             \o DEFAULT_LIBRARY_FALLBACK, 1)

\* optional 'lib', 'freetype', any suffix, and ext as the end of the name
HasLibraryName(f, ext) ==
    /\ \E start \in {0, Len(LIB)} :
          /\ start = Len(LIB) => LitAt(f, 0, LIB)
          /\ LitAt(f, start, FREETYPE)
          /\ start + Len(FREETYPE) + Len(ext) <= Len(f)
    /\ LitAt(f, Len(f) - Len(ext), ext)

\* C5: the directory scan of Windows and macOS returns only names that are
\* optional 'lib' + 'freetype' + any suffix with the extension '.dll'
\* ('.dylib' on macOS), so never a name that goes on after the extension.
C5_OnlyLibraryNamesReturned ==
    (Scanned /\ plat \in {"nt", "darwin"}) => HasLibraryName(outcome.f, Ext(plat))

\* C6 as stated: every path the directory scan returns is a regular file,
\* never a directory and never a symbolic link.
C6_NeverALink ==
    Scanned => TypesAt(plat, outcome.path) = {"file"}

\* C6: every path the directory scan returns is a regular file or a symbolic
\* link to one; a matching name that is a directory, or a link to one, is
\* never returned.
C6_RegularAfterLinks ==
    Scanned =>
        /\ TypesAt(plat, outcome.path) # {}
        /\ TypesAt(plat, outcome.path) \subseteq {"file", "symlink_to_file"}

\* a path was returned from a directory that also holds a matching name
\* which is a directory or a link to one
C6_Witness ==
    /\ Scanned
    /\ \E i \in 1..Len(EntriesOf(outcome.d)) :
          /\ EntriesOf(outcome.d)[i].type \in {"dir", "symlink_to_dir"}
          /\ p_match(plat, EntriesOf(outcome.d)[i].name)

\* C7: the call never ends in an exception, whatever the filesystem and the
\* environment: it returns a path or the not-found value.
C7_NeverRaises == outcome.kind # "raise"

\* C8: on generic POSIX find_library('freetype') is consulted exactly when
\* the hint directory yields no matching regular file, and then its result
\* is returned unchanged.
C8_ResolverIffNoMatch ==
    (Called /\ plat = "posix") =>
        /\ outcome.resolved <=>
              ~\E i \in 1..Len(EntriesOf(freetypepydir)) :
                  /\ EntriesOf(freetypepydir)[i].type \in {"file", "symlink_to_file"}
                  /\ p_match(plat, EntriesOf(freetypepydir)[i].name)
        /\ outcome.resolved => outcome = find_library

\* C9: a call changes neither the filesystem nor the environment, and a
\* call after another, with the same argument, ends as the one before.
C9_Idempotent ==
    [][ /\ fs' = fs
        /\ environ' = environ
        /\ resolver' = resolver
        /\ freetypepydir' = freetypepydir
        /\ Called => outcome' = outcome ]_vars

\* a second call has returned a path
C9_Witness == calls >= 2 /\ outcome.kind = "path"

\* the i-th of the non-empty stretches between the separators of s
SegmentStarts(s, ps) ==
    { i \in 1..Len(s) : s[i] # ps /\ (i = 1 \/ s[i - 1] = ps) }

SegmentEnd(s, ps, i) ==
    CHOOSE j \in i..Len(s) :
        /\ \A x \in i..j : s[x] # ps
        /\ j = Len(s) \/ s[j + 1] = ps

NonEmptySegmentsOf(v, ps) ==
    LET s == IF v.set THEN v.val ELSE <<>>
        starts == SegmentStarts(s, ps)
        nth(n) == CHOOSE i \in starts : Cardinality({x \in starts : x <= i}) = n
    IN  [n \in 1..Cardinality(starts) |-> SubSeq(s, nth(n), SegmentEnd(s, ps, nth(n)))]

\* C10: on macOS the candidates are the hint directory, the non-empty
\* segments of DYLD_FRAMEWORK_PATH, DYLD_LIBRARY_PATH,
\* DYLD_FALLBACK_FRAMEWORK_PATH and DYLD_FALLBACK_LIBRARY_PATH in that order,
\* then the default framework and the default library fallback directories;
\* no empty segment is a candidate.
C10_DarwinSearchOrder ==
    (Called /\ plat = "darwin") =>
        /\ searchdirs = <<freetypepydir>>
              \o NonEmptySegmentsOf(environ["DYLD_FRAMEWORK_PATH"], ":")
              \o NonEmptySegmentsOf(environ["DYLD_LIBRARY_PATH"], ":")
              \o NonEmptySegmentsOf(environ["DYLD_FALLBACK_FRAMEWORK_PATH"], ":")
              \o NonEmptySegmentsOf(environ["DYLD_FALLBACK_LIBRARY_PATH"], ":")
              \o DEFAULT_FRAMEWORK_FALLBACK \o DEFAULT_LIBRARY_FALLBACK
        /\ \A i \in 1..Len(searchdirs) : searchdirs[i] # <<>>

\* two variables are set, and one of them has an empty segment
C10_Witness ==
    /\ Called
    /\ plat = "darwin"
    /\ \E i, j \in 1..Len(DyldNames) :
          /\ i # j
          /\ environ[DyldNames[i]].set /\ environ[DyldNames[j]].set
          /\ <<>> \in { split(environ[DyldNames[i]].val, ":")[x] :
                          x \in 1..Len(split(environ[DyldNames[i]].val, ":")) }
          /\ NonEmptySegmentsOf(environ[DyldNames[i]], ":") # <<>>
          /\ NonEmptySegmentsOf(environ[DyldNames[j]], ":") # <<>>

====
